---- MODULE Spec2Model ----
(***************************************************************************)
(* Model of 0x00-personal_data/filtered_logger.py: the regex redactor      *)
(* filter_datum, the RedactingFormatter, get_logger, get_db and main.      *)
(* Strings are sequences of one-character strings, so that the regular     *)
(* expression built by filter_datum is interpreted character by character. *)
(***************************************************************************)
EXTENDS Naturals, Sequences, FiniteSets, TLC

VARIABLES
    pc,         \* position of the modelled caller
    fields,     \* filter_datum / RedactingFormatter: the field names
    redaction,  \* filter_datum: the redaction string
    message,    \* filter_datum: the message; a log record's message
    separator,  \* filter_datum: the separator character
    result,     \* the string returned by filter_datum / format
    result2,    \* the string returned by a second call (see the actions)
    record,     \* the log record last formatted or logged
    segments,   \* the key=value; segments the record's message is made of
    logger,     \* the "user_data" logger of the process-wide registry
    created,    \* Logger objects created under the name "user_data"
    calls,      \* calls of get_logger that have returned
    rootHandlers, \* handlers attached to the root logger
    last,       \* what the last logged record produced
    stdout,     \* lines written to sys.stdout
    stderr,     \* lines written to sys.stderr
    env,        \* os.environ, the four PERSONAL_DATA_DB_* variables
    server,     \* the database server, as the driver finds it
    connectArgs, \* the arguments of the calls of mysql.connector.connect
    conn,       \* the connection: "none", "open" or "closed"
    cursor,     \* the cursor: "none", "open" or "closed"
    pending,    \* rows of the result set not yet fetched
    queries     \* statements sent to the server

filterVars == <<fields, redaction, message, separator, result, result2>>

logVars == <<record, segments, logger, created, calls, rootHandlers, last>>

streamVars == <<stdout, stderr>>

mainVars == <<env, server, connectArgs, conn, cursor, pending, queries>>

vars == <<pc, filterVars, logVars, streamVars, mainVars>>

\* A string literal as a sequence of one-character strings.
Str(s) == [i \in 1..Len(s) |-> SubSeq(s, i, i)]

NL == "\n"

\* The backslash.
BS == "\\"

(***************************************************************************)
(* Bounds and input alphabets.                                             *)
(***************************************************************************)
MaxMsgLen == 6

\* Field lists of literal names, alone and in pairs.
LiteralFieldLists == {<<Str("a")>>,
                      <<Str("a"), Str("b")>>, <<Str("b"), Str("ab")>>}

\* Pairs of distinct literal names.
LiteralFieldPairs == {<<Str("a"), Str("b")>>, <<Str("b"), Str("ab")>>,
                      <<Str("ab"), Str("a")>>}

\* Field lists with the name ".", which the pattern reads as the regex
\* wildcard.
PatternFieldLists == {<<Str(".")>>, <<Str("a"), Str(".")>>,
                      <<Str("."), Str("b")>>}

FieldLists == LiteralFieldLists \cup LiteralFieldPairs \cup PatternFieldLists

\* Field lists for the repeated call: two names, and the name "_".
TwiceFieldLists == {<<Str("b"), Str("a")>>, <<Str("_")>>}

\* Pairs of names for the two orders: disjoint names, and a name that ends
\* with an underscore.
OrderFieldPairs == {<<Str("a"), Str("b")>>, <<Str("a"), Str("a_")>>}

\* Redaction strings without a separator, "=", a backslash or a line break.
PlainRedactions == {Str("*"), Str("b")}

\* Redaction strings with the separator in them, with "<field>=" in them
\* (after a line break, or alone), and with a backslash: "\2" and "\n" as the
\* caller writes them, two characters each.
SeparatorRedaction(sep) == <<sep>>

FieldRedaction == Str("a=")

BrokenFieldRedaction == <<NL, "a", "=">>

GroupRedaction == <<BS, "2">>

EscapeRedaction == <<BS, "n">>

\* Separators: two that the escaped pattern reads as themselves and that no
\* field name holds, and "=", "_" and the backslash.
PlainSeparators == {";", "."}

OddSeparators == {"=", "_", BS}

Separators == PlainSeparators \cup OddSeparators

\* The characters of the names of a field list.
FieldChars(fs) ==
    UNION {{fs[i][k] : k \in 1..Len(fs[i])} : i \in 1..Len(fs)}

\* Characters of a message for a field list and a separator: the characters
\* of the names (they double as the characters of values), "=", the
\* separator and the line break.
MsgChars(fs, sep) == FieldChars(fs) \cup {"=", sep, NL}

Messages(fs, sep) ==
    UNION {[1..n -> MsgChars(fs, sep)] : n \in 0..MaxMsgLen}

(***************************************************************************)
(* re.sub(pattern, replacement, message) for the pattern                   *)
(*     rf"{field}=(.*?)\{separator}"                                       *)
(* over the alphabets above.                                               *)
(***************************************************************************)

\* One character of the field name, used as a pattern: "." is the regex
\* wildcard (any character but a line break, no re.DOTALL); letters and the
\* underscore are literals.
PatternCharMatches(p, c) == IF p = "." THEN c # NL ELSE p = c

\* The escaped separator: a backslash before a character that is neither a
\* letter nor a digit is that character, a literal ("\;", "\.", "\=", "\_",
\* "\\").
SeparatorMatches(sep, c) == c = sep

\* The field part of the pattern followed by "=" matches at position i.
PrefixMatches(field, msg, i) ==
    /\ i + Len(field) <= Len(msg)
    /\ \A k \in 1..Len(field) : PatternCharMatches(field[k], msg[i + k - 1])
    /\ msg[i + Len(field)] = "="

\* The least element of a non-empty set of positions.
Least(S) == CHOOSE j \in S : \A k \in S : j <= k

\* "(.*?)\{separator}" from position s: the lazy group grows one character
\* at a time, the separator is tried first at each position, and "." does
\* not take a line break.  So the match ends at the first separator, unless
\* a line break comes before it.  j is the first position from s on that
\* holds a separator or a line break; the result is the position of the
\* separator that ends the match, or 0 when there is none.
LazyEndAt(sep, msg, j) == IF SeparatorMatches(sep, msg[j]) THEN j ELSE 0

LazyEnd(sep, msg, s) ==
    LET stops == {j \in s..Len(msg) :
                    SeparatorMatches(sep, msg[j]) \/ msg[j] = NL}
    IN IF stops = {} THEN 0 ELSE LazyEndAt(sep, msg, Least(stops))

\* The position of the last character of the match that starts at i, or 0.
MatchEnd(field, sep, msg, i) ==
    IF PrefixMatches(field, msg, i)
    THEN LazyEnd(sep, msg, i + Len(field) + 1)
    ELSE 0

\* f'{field}={redaction}{separator}': the replacement as the code builds it.
Template(field, redact, sep) == field \o <<"=">> \o redact \o <<sep>>

\* re.sub reads the replacement as a template and expands its escapes before
\* it looks for a match.  A backslash at the end of the template is an error,
\* and so is "\2", a reference to a group the pattern does not have.
RECURSIVE TemplateRaises(_)
TemplateRaises(t) ==
    IF t = <<>> THEN FALSE
    ELSE IF Head(t) # BS THEN TemplateRaises(Tail(t))
    ELSE IF Len(t) = 1 THEN TRUE
    ELSE IF t[2] = "2" THEN TRUE
    ELSE TemplateRaises(SubSeq(t, 3, Len(t)))

\* The escapes of a template that raises no error: "\n" is a line break,
\* "\\" one backslash, and a backslash before any other character that is
\* neither a letter nor a digit stays, with the character.
RECURSIVE ExpandFrom(_)
ExpandFrom(t) ==
    IF t = <<>> THEN <<>>
    ELSE IF Head(t) # BS \/ Len(t) = 1
    THEN <<Head(t)>> \o ExpandFrom(Tail(t))
    ELSE IF t[2] = "n" THEN <<NL>> \o ExpandFrom(SubSeq(t, 3, Len(t)))
    ELSE IF t[2] = BS THEN <<BS>> \o ExpandFrom(SubSeq(t, 3, Len(t)))
    ELSE <<BS, t[2]>> \o ExpandFrom(SubSeq(t, 3, Len(t)))

\* A template without a backslash is the replacement text as it is.
Expand(t) == IF \A i \in 1..Len(t) : t[i] # BS THEN t ELSE ExpandFrom(t)

\* A replacement template that leaves the separator out.
ReplacementWithoutSeparator(field, redact, sep) ==
    Expand(field \o <<"=">> \o redact)

\* The text re.sub puts in the place of a match.
Replacement(field, redact, sep) == Expand(Template(field, redact, sep))

\* The first position from i on where the pattern matches, or 0.
FirstMatch(field, sep, msg, i) ==
    LET starts == {k \in i..Len(msg) : MatchEnd(field, sep, msg, k) > 0}
    IN IF starts = {} THEN 0 ELSE Least(starts)

\* re.sub: leftmost matches, not overlapping, each replaced; the text
\* between the matches is copied.  k is the first match from i on.
RECURSIVE ReSubFrom(_, _, _, _, _)
ReSubAt(field, repl, sep, msg, i, k) ==
    IF k = 0 THEN SubSeq(msg, i, Len(msg))
    ELSE SubSeq(msg, i, k - 1) \o repl
            \o ReSubFrom(field, repl, sep, msg,
                         MatchEnd(field, sep, msg, k) + 1)

ReSubFrom(field, repl, sep, msg, i) ==
    ReSubAt(field, repl, sep, msg, i, FirstMatch(field, sep, msg, i))

\* What a call of filter_datum yields when re.sub raises re.error: the
\* exception leaves the loop and the function.
ReError == <<"re.error">>

\* re.sub(pattern, replacement, message): the error of the template comes
\* first, whatever the message.
ReSub(field, redact, sep, msg) ==
    IF TemplateRaises(Template(field, redact, sep)) THEN ReError
    ELSE ReSubFrom(field, Replacement(field, redact, sep), sep, msg, 1)

\* A filter that stops after the first field of the list.
FilterFirstFieldOnly(fs, redact, msg, sep) ==
    IF fs = <<>> THEN msg ELSE ReSub(Head(fs), redact, sep, msg)

\* filter_datum: one substitution per field, in the order given.
RECURSIVE filter_datum(_, _, _, _)
filter_datum(fs, redact, msg, sep) ==
    IF fs = <<>> \/ msg = ReError THEN msg
    ELSE filter_datum(Tail(fs), redact, ReSub(Head(fs), redact, sep, msg), sep)

(***************************************************************************)
(* Callers of filter_datum.  The field list, the redaction string and the  *)
(* separator are drawn at the start, the message at the call.              *)
(***************************************************************************)
FilterIdle ==
    /\ fields = <<>>
    /\ redaction = <<>>
    /\ separator = ";"
    /\ message = <<>>
    /\ result = <<>>
    /\ result2 = <<>>

LogIdle ==
    /\ record = [name |-> <<>>, levelno |-> 0, asctime |-> <<>>, msg |-> <<>>]
    /\ segments = <<>>
    /\ logger = [level |-> 0, propagate |-> TRUE, handlers |-> <<>>]
    /\ created = 0
    /\ calls = 0
    /\ rootHandlers = 0
    /\ last = [n |-> 0, levelno |-> 0, calls |-> 0, lines |-> 0, root |-> 0]

StreamIdle ==
    /\ stdout = <<>>
    /\ stderr = <<>>

MainIdle ==
    /\ env = <<>>
    /\ server = <<>>
    /\ connectArgs = <<>>
    /\ conn = "none"
    /\ cursor = "none"
    /\ pending = <<>>
    /\ queries = 0

InitFilterOn(lists, redactions, separators) ==
    /\ LogIdle /\ StreamIdle /\ MainIdle
    /\ pc = "start"
    /\ fields \in lists
    /\ redaction \in redactions
    /\ separator \in separators
    /\ message = <<>>
    /\ result = <<>>
    /\ result2 = <<>>

Reverse(s) == [i \in 1..Len(s) |-> s[Len(s) + 1 - i]]

\* One call: result = filter_datum(fields, redaction, message, separator).
CallFilterDatum ==
    /\ pc = "start"
    /\ UNCHANGED <<logVars, streamVars, mainVars>>
    /\ \E m \in Messages(fields, separator) :
        \E r \in {filter_datum(fields, redaction, m, separator)} :
            /\ message' = m
            /\ result' = r
            /\ pc' = IF r = ReError THEN "raised" ELSE "returned"
    /\ result2' = <<>>
    /\ UNCHANGED <<fields, redaction, separator>>

\* Two calls, the second on the string the first returned.
CallFilterDatumTwice ==
    /\ pc = "start"
    /\ UNCHANGED <<logVars, streamVars, mainVars>>
    /\ \E m \in Messages(fields, separator) :
        \E once \in {filter_datum(fields, redaction, m, separator)} :
            /\ message' = m
            /\ result' = once
            /\ IF once = ReError
               THEN /\ result2' = <<>>
                    /\ pc' = "raised"
               ELSE /\ result2' =
                         filter_datum(fields, redaction, once, separator)
                    /\ pc' = "twice"
    /\ UNCHANGED <<fields, redaction, separator>>

\* Two calls on the same message, the second with the field list reversed.
CallFilterDatumBothOrders ==
    /\ pc = "start"
    /\ UNCHANGED <<logVars, streamVars, mainVars>>
    /\ \E m \in Messages(fields, separator) :
        \E r \in {filter_datum(fields, redaction, m, separator)} :
            /\ message' = m
            /\ result' = r
            /\ IF r = ReError
               THEN /\ result2' = <<>>
                    /\ pc' = "raised"
               ELSE /\ result2' = filter_datum(Reverse(fields), redaction,
                                               m, separator)
                    /\ pc' = "both"
    /\ UNCHANGED <<fields, redaction, separator>>

InitFilter == InitFilterOn(FieldLists, PlainRedactions, PlainSeparators)

InitLiteral ==
    InitFilterOn(LiteralFieldLists \cup LiteralFieldPairs,
                 PlainRedactions \cup {<<NL>>}, PlainSeparators)

\* The repeated call.  Plain redaction strings and the line break, with every
\* separator but the backslash; the backslash as the separator;
\* redaction strings that hold the separator, "<field>=" or a backslash; the
\* wildcard name.
InitTwice ==
    \/ InitFilterOn(TwiceFieldLists, PlainRedactions \cup {<<NL>>},
                    Separators \ {BS})
    \/ InitFilterOn(TwiceFieldLists, {Str("*")}, {BS})
    \/ InitFilterOn({<<Str("b"), Str("a")>>},
                    {SeparatorRedaction(";"), BrokenFieldRedaction,
                     GroupRedaction}, {";"})
    \/ InitFilterOn({<<Str(".")>>}, {Str("*")}, {";"})

\* The two orders.  Plain redaction strings with the plain separators; the
\* separators "=", "_" and the backslash; redaction strings that hold the
\* separator, "<field>=", a line break or a backslash; the wildcard name.
InitOrder ==
    \/ InitFilterOn(OrderFieldPairs, PlainRedactions, PlainSeparators)
    \/ InitFilterOn(OrderFieldPairs, {Str("*")}, OddSeparators)
    \/ InitFilterOn({<<Str("a"), Str("b")>>},
                    {SeparatorRedaction(";"), FieldRedaction, <<NL>>,
                     EscapeRedaction}, {";"})
    \/ InitFilterOn({<<Str("a"), Str("..")>>}, {Str("*")}, {";"})

SpecFilter == InitFilter /\ [][CallFilterDatum]_vars

SpecLiteral == InitLiteral /\ [][CallFilterDatum]_vars

SpecTwice == InitTwice /\ [][CallFilterDatumTwice]_vars

SpecOrder == InitOrder /\ [][CallFilterDatumBothOrders]_vars

(***************************************************************************)
(* What the contract of filter_datum describes: field names and separator  *)
(* read as plain text, a value being any run of characters up to the next  *)
(* separator.                                                              *)
(***************************************************************************)
OccursAt(field, msg, i) ==
    /\ i + Len(field) <= Len(msg)
    /\ \A k \in 1..Len(field) : msg[i + k - 1] = field[k]
    /\ msg[i + Len(field)] = "="

NextSeparator(sep, msg, s) ==
    LET ends == {j \in s..Len(msg) : msg[j] = sep}
    IN IF ends = {} THEN 0
       ELSE CHOOSE j \in ends : \A k \in ends : j <= k

RECURSIVE RedactedFrom(_, _, _, _, _)
RedactedFrom(field, redact, sep, msg, i) ==
    IF i > Len(msg) THEN <<>>
    ELSE LET j == IF OccursAt(field, msg, i)
                  THEN NextSeparator(sep, msg, i + Len(field) + 1)
                  ELSE 0
         IN IF j > 0
            THEN field \o <<"=">> \o redact \o <<sep>>
                    \o RedactedFrom(field, redact, sep, msg, j + 1)
            ELSE <<msg[i]>> \o RedactedFrom(field, redact, sep, msg, i + 1)

RECURSIVE Redacted(_, _, _, _)
Redacted(fs, redact, msg, sep) ==
    IF fs = <<>> THEN msg
    ELSE Redacted(Tail(fs), redact,
                  RedactedFrom(Head(fs), redact, sep, msg, 1), sep)

\* The field name occurs in the message, as plain text.
Occurs(field, msg) ==
    \E i \in 1..Len(msg) :
        /\ i + Len(field) - 1 <= Len(msg)
        /\ \A k \in 1..Len(field) : msg[i + k - 1] = field[k]

Contains(s, c) == \E i \in 1..Len(s) : s[i] = c

\* The letters, digits and underscore of the alphabets above.
WordChars == {"a", "b", "n", "2", "_"}

\* Every field name is a non-empty run of letters, digits and underscores.
WordFields(fs) ==
    \A i \in 1..Len(fs) :
        /\ fs[i] # <<>>
        /\ \A k \in 1..Len(fs[i]) : fs[i][k] \in WordChars

\* The separator is not a letter, a digit, an underscore, "=" or a backslash.
PlainSeparator(sep) == sep \notin WordChars \cup {"=", BS}

\* Field names and separator as above, and a redaction string that holds
\* neither the separator, nor "=", nor a backslash.
PlainInputs(fs, redact, sep) ==
    /\ WordFields(fs)
    /\ PlainSeparator(sep)
    /\ ~Contains(redact, sep)
    /\ ~Contains(redact, "=")
    /\ ~Contains(redact, BS)

\* C1: every occurrence of <field>=<value><separator> in the message, for
\* every field of the list and every value without the separator, has become
\* <field>=<redaction><separator> in the string filter_datum returns.
C1_EveryOccurrenceRedacted ==
    pc = "returned" => result = Redacted(fields, redaction, message, separator)

\* C2: a message in which no field name of the list occurs is returned
\* unchanged.
C2_NoFieldNoChange ==
    (pc = "returned" /\ \A i \in 1..Len(fields) : ~Occurs(fields[i], message))
        => result = message

\* C3 for every input: filter_datum applied to its own result returns that
\* result, for every field list, redaction string, separator and message.
C3_Idempotent ==
    pc = "twice" => result2 = result

\* C3 for plain inputs: with field names of letters, digits and underscores,
\* a separator that is none of these nor "=" nor a backslash, and a redaction
\* string that holds neither the separator, nor "=", nor a backslash, both
\* calls return and filter_datum applied to its own result returns that
\* result.
C3_IdempotentPlainRedaction ==
    (pc # "start" /\ PlainInputs(fields, redaction, separator))
        => (pc = "twice" /\ result2 = result)

\* Two names, two segments redacted one after the other, and the second call
\* changes nothing.
C3_Witness ==
    /\ pc = "twice"
    /\ PlainInputs(fields, redaction, separator)
    /\ Len(fields) = 2
    /\ ReSub(fields[1], redaction, separator, message) # message
    /\ result # ReSub(fields[1], redaction, separator, message)
    /\ result2 = result

\* The message holds the names of both fields of the list.
HoldsBoth(fs, msg) ==
    /\ Len(fs) = 2
    /\ Occurs(fs[1], msg)
    /\ Occurs(fs[2], msg)

\* C4 for every input: for two field names and a message that holds both,
\* the result does not depend on the order of the field list.
C4_OrderIndependent ==
    (pc = "both" /\ HoldsBoth(fields, message)) => result2 = result

\* C4 for plain inputs: with field names of letters, digits and underscores,
\* a separator that is none of these nor "=" nor a backslash, and a redaction
\* string that holds neither the separator, nor "=", nor a backslash, nor a
\* line break, both calls return and the result for a message that holds
\* both field names does not depend on the order of the field list.
C4_OrderIndependentPlainRedaction ==
    (/\ pc # "start"
     /\ HoldsBoth(fields, message)
     /\ PlainInputs(fields, redaction, separator)
     /\ ~Contains(redaction, NL))
        => (pc = "both" /\ result2 = result)

\* Two names of which neither holds the other, each with a segment of its
\* own in the message: whichever field comes first, the other one still
\* finds its segment.
C4_Witness ==
    /\ pc = "both"
    /\ HoldsBoth(fields, message)
    /\ PlainInputs(fields, redaction, separator)
    /\ ~Contains(redaction, NL)
    /\ ~Occurs(fields[1], fields[2])
    /\ ~Occurs(fields[2], fields[1])
    /\ ReSub(fields[1], redaction, separator, message) # message
    /\ ReSub(fields[2], redaction, separator, message) # message
    /\ result # ReSub(fields[1], redaction, separator, message)
    /\ result2 # ReSub(fields[2], redaction, separator, message)
    /\ result2 = result

(***************************************************************************)
(* RedactingFormatter.                                                     *)
(***************************************************************************)
PII_FIELDS == <<Str("name"), Str("email"), Str("phone"), Str("ssn"),
                Str("password")>>

REDACTION == Str("***")

SEPARATOR == ";"

INFO == 20

AsctimeWidth == 15

\* logging.getLevelName for the levels of the model.
LevelName(levelno) ==
    CASE levelno = 10 -> Str("DEBUG")
      [] levelno = 20 -> Str("INFO")
      [] levelno = 40 -> Str("ERROR")

RECURSIVE Spaces(_)
Spaces(n) == IF n = 0 THEN <<>> ELSE <<" ">> \o Spaces(n - 1)

\* "%-15s": the string, left-justified in a field of at least 15 characters.
PadRight(s, width) ==
    IF Len(s) >= width THEN s ELSE s \o Spaces(width - Len(s))

\* logging.Formatter.format under
\* FORMAT = "[HOLBERTON] %(name)s %(levelname)s %(asctime)-15s: %(message)s",
\* for a record without exception or stack information.
FormatterFormat(rec) ==
    Str("[HOLBERTON] ") \o rec.name \o <<" ">> \o LevelName(rec.levelno)
        \o <<" ">> \o PadRight(rec.asctime, AsctimeWidth) \o Str(": ")
        \o rec.msg

\* RedactingFormatter.format: the rendered line, through filter_datum.
RedactingFormat(fs, rec) ==
    filter_datum(fs, REDACTION, FormatterFormat(rec), SEPARATOR)

(***************************************************************************)
(* Log records of the model: a message is a run of key=value; segments.    *)
(***************************************************************************)
MaxSegments == 2

SegmentKeys == {Str("name"), Str("username"), Str("password"), Str("ip")}

SegmentValues == {Str("x"), <<"x", NL, "y">>}

Segments == [key : SegmentKeys, value : SegmentValues]

SegmentLists == UNION {[1..n -> Segments] : n \in 0..MaxSegments}

LoggerNames == {Str("user_data"), Str("app")}

LevelNumbers == {10, 20, 40}

Asctime == Str("2024-01-01 12:00:00,000")

FormatterFieldLists == {PII_FIELDS, <<Str("password"), Str("ssn")>>}

SegmentText(seg) == seg.key \o <<"=">> \o seg.value \o <<SEPARATOR>>

RECURSIVE MessageText(_)
MessageText(segs) ==
    IF segs = <<>> THEN <<>>
    ELSE SegmentText(Head(segs)) \o MessageText(Tail(segs))

LogRecord(name, levelno, segs) ==
    [name |-> name, levelno |-> levelno, asctime |-> Asctime,
     msg |-> MessageText(segs)]

\* A formatter is constructed with a field list and formats one record.
InitFormat ==
    /\ LogIdle /\ StreamIdle /\ MainIdle
    /\ pc = "start"
    /\ fields \in FormatterFieldLists
    /\ redaction = REDACTION
    /\ separator = SEPARATOR
    /\ message = <<>>
    /\ result = <<>>
    /\ result2 = <<>>

CallFormat ==
    /\ pc = "start"
    /\ \E name \in LoggerNames, levelno \in LevelNumbers, segs \in SegmentLists :
        LET rec == LogRecord(name, levelno, segs)
        IN /\ record' = rec
           /\ segments' = segs
           /\ message' = rec.msg
           /\ result' = RedactingFormat(fields, rec)
    /\ pc' = "formatted"
    /\ UNCHANGED <<fields, redaction, separator, result2, logger, created,
                   calls, rootHandlers, last, streamVars, mainVars>>

SpecFormat == InitFormat /\ [][CallFormat]_vars

InList(x, s) == \E i \in 1..Len(s) : s[i] = x

\* The message with the value of every segment whose key is in the field
\* list replaced by the redaction marker, the other segments as they are.
RECURSIVE RedactedSegments(_, _)
RedactedSegments(fs, segs) ==
    IF segs = <<>> THEN <<>>
    ELSE (IF InList(Head(segs).key, fs)
          THEN Head(segs).key \o <<"=">> \o REDACTION \o <<SEPARATOR>>
          ELSE SegmentText(Head(segs)))
         \o RedactedSegments(fs, Tail(segs))

\* C5: format returns the "[HOLBERTON] <name> <LEVEL> <asctime>: " prefix
\* followed by the message in which the value of every key=value; segment
\* whose key is in the field list is "***" and every other segment is
\* unchanged.
C5_FormatRedactsListedKeysOnly ==
    pc = "formatted" =>
        result = Str("[HOLBERTON] ") \o record.name \o <<" ">>
                    \o LevelName(record.levelno) \o <<" ">> \o record.asctime
                    \o Str(": ") \o RedactedSegments(fields, segments)

(***************************************************************************)
(* get_logger and the logging of records through the logger it returns.    *)
(***************************************************************************)
MaxCalls == 3

MaxRecords == 2

\* logging.StreamHandler() without a stream argument writes to sys.stderr.
StreamHandlerDefault == "stderr"

\* handler = logging.StreamHandler(); handler.setFormatter(...)
NewHandler == [stream |-> StreamHandlerDefault, fields |-> PII_FIELDS]

\* logger.addHandler(handler)
AddHandlerIfNone(handlers, handler) ==
    IF handlers = <<>> THEN <<handler>> ELSE handlers
AddHandler(handlers, handler) == Append(handlers, handler)

\* logging.getLogger("user_data"): the logger of that name in the registry,
\* created at the first call.
GetLoggerCreates == IF created = 0 THEN 1 ELSE 0

\* The messages logged through the logger.
LoggedSegmentLists ==
    {<<[key |-> Str("name"), value |-> Str("x")],
       [key |-> Str("ip"), value |-> Str("x")]>>,
     <<[key |-> Str("password"), value |-> Str("x")]>>}

\* Whether the root logger carries a handler is the application's business.
InitLogger ==
    /\ StreamIdle /\ MainIdle /\ FilterIdle
    /\ pc = "run"
    /\ record = [name |-> <<>>, levelno |-> 0, asctime |-> <<>>, msg |-> <<>>]
    /\ segments = <<>>
    /\ logger = [level |-> 0, propagate |-> TRUE, handlers |-> <<>>]
    /\ created = 0
    /\ calls = 0
    /\ rootHandlers \in {0, 1}
    /\ last = [n |-> 0, levelno |-> 0, calls |-> 0, lines |-> 0, root |-> 0]

get_logger ==
    /\ pc = "run"
    /\ calls < MaxCalls
    /\ created' = created + GetLoggerCreates
    /\ logger' = [level |-> INFO,
                  propagate |-> FALSE,
                  handlers |-> AddHandler(logger.handlers, NewHandler)]
    /\ calls' = calls + 1
    /\ UNCHANGED <<pc, filterVars, record, segments, rootHandlers, last,
                   streamVars, mainVars>>

\* The lines the handlers write to one stream for a record, in handler order
\* (the handlers' own level is NOTSET: each handles every record it is given).
RECURSIVE Emitted(_, _, _)
Emitted(handlers, rec, stream) ==
    IF handlers = <<>> THEN <<>>
    ELSE (IF Head(handlers).stream = stream
          THEN <<RedactingFormat(Head(handlers).fields, rec)>>
          ELSE <<>>)
         \o Emitted(Tail(handlers), rec, stream)

\* A caller logs one record through the logger get_logger returned:
\* Logger.isEnabledFor, then Logger.callHandlers, which goes on to the root
\* logger's handlers only when the logger propagates.
LogRecordThroughLogger ==
    /\ pc = "run"
    /\ calls >= 1
    /\ last.n < MaxRecords
    /\ \E levelno \in LevelNumbers, segs \in LoggedSegmentLists :
        LET rec == LogRecord(Str("user_data"), levelno, segs)
            enabled == levelno >= logger.level
            out == IF enabled THEN Emitted(logger.handlers, rec, "stdout")
                   ELSE <<>>
            err == IF enabled THEN Emitted(logger.handlers, rec, "stderr")
                   ELSE <<>>
            root == IF enabled /\ logger.propagate THEN rootHandlers ELSE 0
        IN /\ record' = rec
           /\ segments' = segs
           /\ stdout' = stdout \o out
           /\ stderr' = stderr \o err
           /\ last' = [n |-> last.n + 1, levelno |-> levelno, calls |-> calls,
                       lines |-> Len(out) + Len(err), root |-> root]
    /\ UNCHANGED <<pc, filterVars, logger, created, calls, rootHandlers,
                   mainVars>>

NextLogger == get_logger \/ LogRecordThroughLogger

SpecLogger == InitLogger /\ [][NextLogger]_vars

(***************************************************************************)
(* get_db and main.  The driver and the server are the environment: a      *)
(* connection is made when the server is up at the host asked for, accepts *)
(* the user and password, and holds the database asked for, if one is.     *)
(***************************************************************************)
MaxRows == 2

\* The databases the server holds.
DatabaseNames == {"holberton"}

\* os.environ.get of a variable that is not set returns None.
Unset == "<unset>"
NoneObject == "<None>"

EnvGet(e, name, default) == IF e[name] = Unset THEN default ELSE e[name]

Environments ==
    [PERSONAL_DATA_DB_PASSWORD : {Unset, "pw"},
     PERSONAL_DATA_DB_USERNAME : {Unset, "bob"},
     PERSONAL_DATA_DB_HOST : {Unset, "db"},
     PERSONAL_DATA_DB_NAME : DatabaseNames \cup {Unset}]

\* A row of the users table: eight columns; a NULL column is None.
NoneValue == <<NoneObject>>

Rows ==
    {<<Str("Ann"), Str("ann@x.com"), Str("555-1234"), Str("000-00-0000"),
       Str("pw1"), Str("1.2.3.4"), Str("2024-01-01"), Str("curl/8")>>,
     <<Str("Bob"), Str("bob@bob.com"), Str("555-0000"), Str("123-45-6789"),
       Str("hunter2"), Str("10.0.0.1"), NoneValue, Str("Mozilla")>>}

ResultSets == UNION {[1..n -> Rows] : n \in 0..MaxRows}

Servers ==
    [up : BOOLEAN,
     host : {"localhost", "db"},
     accounts : {{<<"root", "">>}, {<<"bob", "pw">>}},
     databases : {DatabaseNames},
     hasUsers : BOOLEAN,
     rows : ResultSets]

\* The keyword arguments get_db passes to mysql.connector.connect.
GetDbArgs(e) ==
    [host |-> EnvGet(e, "PERSONAL_DATA_DB_HOST", "localhost"),
     database |-> EnvGet(e, "PERSONAL_DATA_DB_NAME", NoneObject),
     user |-> EnvGet(e, "PERSONAL_DATA_DB_USERNAME", "root"),
     password |-> EnvGet(e, "PERSONAL_DATA_DB_PASSWORD", "")]

\* mysql.connector.connect: database=None asks for no default database, and
\* the connection is made without one.
ConnectSucceeds(args, srv) ==
    /\ srv.up
    /\ args.host = srv.host
    /\ <<args.user, args.password>> \in srv.accounts
    /\ (args.database = NoneObject \/ args.database \in srv.databases)

\* cursor.execute("SELECT * FROM users;"): the server refuses the statement
\* when the connection has no default database or the table does not exist.
QuerySucceeds(args, srv) ==
    /\ args.database # NoneObject
    /\ srv.hasUsers

\* str() of a column value inside the f-string.
PyStr(v) == IF v = NoneValue THEN Str("None") ELSE v

\* The message main builds for a row.
MainMessageNoSpaces(row) ==
    Str("name=") \o PyStr(row[1]) \o Str(";email=") \o PyStr(row[2])
        \o Str(";phone=") \o PyStr(row[3]) \o Str(";ssn=") \o PyStr(row[4])
        \o Str(";password=") \o PyStr(row[5]) \o Str(";ip=") \o PyStr(row[6])
        \o Str(";last_login=") \o PyStr(row[7])
        \o Str(";user_agent=") \o PyStr(row[8]) \o Str(";")
MainMessage(row) ==
    Str("name=") \o PyStr(row[1]) \o Str("; email=") \o PyStr(row[2])
        \o Str("; phone=") \o PyStr(row[3]) \o Str("; ssn=") \o PyStr(row[4])
        \o Str("; password=") \o PyStr(row[5]) \o Str("; ip=") \o PyStr(row[6])
        \o Str("; last_login=") \o PyStr(row[7])
        \o Str("; user_agent=") \o PyStr(row[8]) \o Str(";")

InitMain ==
    /\ FilterIdle /\ LogIdle /\ StreamIdle
    /\ pc = "start"
    /\ env \in Environments
    /\ server \in Servers
    /\ connectArgs = <<>>
    /\ conn = "none"
    /\ cursor = "none"
    /\ pending = <<>>
    /\ queries = 0

\* db = get_db(): one call of mysql.connector.connect; its error is not
\* caught and ends main.
get_db ==
    /\ pc = "start"
    /\ connectArgs' = Append(connectArgs, GetDbArgs(env))
    /\ IF ConnectSucceeds(GetDbArgs(env), server)
       THEN conn' = "open" /\ pc' = "connected"
       ELSE conn' = conn /\ pc' = "raised"
    /\ UNCHANGED <<filterVars, logVars, streamVars, env, server, cursor,
                   pending, queries>>

\* cursor = db.cursor()
OpenCursor ==
    /\ pc = "connected"
    /\ cursor' = "open"
    /\ pc' = "cursor"
    /\ UNCHANGED <<filterVars, logVars, streamVars, env, server, connectArgs,
                   conn, pending, queries>>

\* cursor.execute("SELECT * FROM users;"): its error is not caught and ends
\* main where it stands.
Execute ==
    /\ pc = "cursor"
    /\ queries' = queries + 1
    /\ IF QuerySucceeds(connectArgs[Len(connectArgs)], server)
       THEN pending' = server.rows /\ pc' = "loop"
       ELSE pending' = pending /\ pc' = "raised"
    /\ UNCHANGED <<filterVars, logVars, streamVars, env, server, connectArgs,
                   conn, cursor>>

\* One turn of "for row in cursor": print(message).
PrintRow ==
    /\ pc = "loop"
    /\ pending # <<>>
    /\ stdout' = Append(stdout, MainMessage(Head(pending)))
    /\ pending' = Tail(pending)
    /\ UNCHANGED <<pc, filterVars, logVars, stderr, env, server, connectArgs,
                   conn, cursor, queries>>

\* cursor.close(), after the last row.
CloseCursor ==
    /\ pc = "loop"
    /\ pending = <<>>
    /\ cursor' = "closed"
    /\ pc' = "cursor_closed"
    /\ UNCHANGED <<filterVars, logVars, streamVars, env, server, connectArgs,
                   conn, pending, queries>>

\* db.close()
CloseDb ==
    /\ pc = "cursor_closed"
    /\ conn' = "closed"
    /\ pc' = "done"
    /\ UNCHANGED <<filterVars, logVars, streamVars, env, server, connectArgs,
                   cursor, pending, queries>>

NextMain ==
    get_db \/ OpenCursor \/ Execute \/ PrintRow \/ CloseCursor \/ CloseDb

SpecMain == InitMain /\ [][NextMain]_vars

(***************************************************************************)
(* Claims about main's output.                                             *)
(***************************************************************************)
RowKeys == <<"name", "email", "phone", "ssn", "password", "ip", "last_login",
             "user_agent">>

\* key=<value>; for each of the eight columns, in order, joined by a space.
RECURSIVE RowLine(_, _)
RowLine(row, i) ==
    IF i > Len(RowKeys) THEN <<>>
    ELSE (IF i > 1 THEN <<" ">> ELSE <<>>)
         \o Str(RowKeys[i]) \o <<"=">> \o PyStr(row[i]) \o <<";">>
         \o RowLine(row, i + 1)

\* C6: main prints one line per row, in cursor order, each line being
\* name=<v0>; email=<v1>; ... user_agent=<v7>; with the row's values as they
\* are: the line is not what the redactor would make of it, and nothing goes
\* to the logger's stream.
C6_RowsPrintedUnredacted ==
    pc \in {"loop", "cursor_closed", "done"} =>
        LET n == Len(server.rows) - Len(pending)
        IN /\ Len(stdout) = n
           /\ stderr = <<>>
           /\ pc \in {"cursor_closed", "done"} => n = Len(server.rows)
           /\ \A i \in 1..n :
                /\ stdout[i] = RowLine(server.rows[i], 1)
                /\ stdout[i] #
                     filter_datum(PII_FIELDS, REDACTION, stdout[i], SEPARATOR)

C6_Witness ==
    /\ pc = "done"
    /\ Len(server.rows) = 2
    /\ server.rows[1] # server.rows[2]
    /\ Len(stdout) = 2
    /\ stdout[2] = RowLine(server.rows[2], 1)

(***************************************************************************)
(* Claims about get_logger.                                                *)
(***************************************************************************)
\* C7: every handler of the logger writes to sys.stdout, with a
\* RedactingFormatter over exactly the five PII fields, so every line
\* emitted through the logger is on standard output and none on standard
\* error.
C7_HandlersWriteToStdout ==
    /\ \A i \in 1..Len(logger.handlers) :
        /\ logger.handlers[i].stream = "stdout"
        /\ logger.handlers[i].fields = PII_FIELDS
    /\ stderr = <<>>

\* C8: after n >= 1 calls of get_logger there is one logger "user_data", at
\* level INFO, not propagating, with n handlers; a record of level INFO or
\* above logged through it produces n lines and none on the root logger, a
\* record below INFO produces none.
C8_OneHandlerPerCall ==
    /\ calls >= 1 =>
        /\ created = 1
        /\ logger.level = 20
        /\ logger.propagate = FALSE
        /\ Len(logger.handlers) = calls
    /\ last.n >= 1 =>
        /\ last.levelno >= 20 => last.lines = last.calls
        /\ last.levelno < 20 => last.lines = 0
        /\ last.root = 0
        /\ Len(stdout) + Len(stderr) >= last.lines

C8_Witness ==
    /\ calls >= 2
    /\ rootHandlers = 1
    /\ last.n >= 1
    /\ last.levelno >= 20
    /\ last.calls = 2
    /\ last.lines = 2
    /\ Len(stderr) >= 2
    /\ stderr[Len(stderr)] = stderr[Len(stderr) - 1]

(***************************************************************************)
(* Claims about main's connection.                                         *)
(***************************************************************************)
\* C9: when main ends, by returning or by an error that propagates out of
\* it, the cursor it opened and the connection get_db returned are closed.
C9_ConnectionReleasedOnEveryExit ==
    (pc \in {"done", "raised"} /\ conn # "none") =>
        /\ conn = "closed"
        /\ cursor = "closed"

\* C10: with PERSONAL_DATA_DB_NAME unset, get_db ends in an error instead of
\* returning a connection and main sends no query; the other settings fall
\* back to "", "root" and "localhost", and one connection attempt is made.
C10_UnsetNameFailsBeforeQuery ==
    (env.PERSONAL_DATA_DB_NAME = Unset /\ pc # "start") =>
        /\ pc = "raised"
        /\ conn = "none"
        /\ queries = 0
        /\ Len(connectArgs) = 1
        /\ env.PERSONAL_DATA_DB_PASSWORD = Unset
             => connectArgs[1].password = ""
        /\ env.PERSONAL_DATA_DB_USERNAME = Unset
             => connectArgs[1].user = "root"
        /\ env.PERSONAL_DATA_DB_HOST = Unset
             => connectArgs[1].host = "localhost"

====
